---- MODULE Spec2Model ----
(***************************************************************************)
(* Model of the 14-bit control-change codec of helgoboss-midi:             *)
(*   src/src/bit_util.rs, src/src/util.rs  (bit/byte codec)                *)
(*   src/src/control_change_14_bit_message.rs (ControlChange14BitMessage)  *)
(* The value types (Channel, U7, ControllerNumber, U14), the pairing       *)
(* lookup corresponding_14_bit_lsb_controller_number and the message       *)
(* factory live in the crate root, outside the files above; they are       *)
(* modelled from the specification (sections 3, 4.1, 4.3, 6, 7).           *)
(***************************************************************************)
EXTENDS Integers, Naturals, Sequences, FiniteSets, TLC

VARIABLES pc, args, msg, op, ret, mid, ncalls

vars == <<pc, args, msg, op, ret, mid, ncalls>>

(***************************************************************************)
(* Bounds of the model.                                                    *)
(***************************************************************************)
\* how many 14-bit values (spread over the whole range) a message is built with
NumValues == 32
\* how many accessor / encoding calls are made on one constructed message
MaxCalls == 3

(***************************************************************************)
(* Rust integer operators on u8 / u16.                                     *)
(***************************************************************************)
U8_MAX == 2^8 - 1
U16_MAX == 2^16 - 1

RECURSIVE BitAnd(_, _)
BitAnd(x, y) ==
    IF x = 0 \/ y = 0 THEN 0
    ELSE (x % 2) * (y % 2) + 2 * BitAnd(x \div 2, y \div 2)

RECURSIVE BitOr(_, _)
BitOr(x, y) ==
    IF x = 0 THEN y
    ELSE IF y = 0 THEN x
    ELSE (IF x % 2 = 1 \/ y % 2 = 1 THEN 1 ELSE 0) + 2 * BitOr(x \div 2, y \div 2)

\* x >> k
Shr(x, k) == x \div (2^k)
\* x << k on a u8 / u16: the bits shifted out are dropped
Shl8(x, k) == (x * 2^k) % 2^8
Shl16(x, k) == (x * 2^k) % 2^16
\* x as u8 (truncating cast)
AsU8(x) == x % 2^8

(***************************************************************************)
(* Value types: tagged scalars.                                            *)
(***************************************************************************)
CHANNEL_MAX == 2^4 - 1
U7_MAX == 2^7 - 1
CONTROLLER_NUMBER_MAX == 2^7 - 1
U14_MAX == 2^14 - 1

\* tuple-struct constructors / new_unchecked: wrap without any check
Channel(x) == [ty |-> "Channel", val |-> x]
U7(x) == [ty |-> "U7", val |-> x]
ControllerNumber(x) == [ty |-> "ControllerNumber", val |-> x]
U14(x) == [ty |-> "U14", val |-> x]

\* .get() / u8::from / u16::from
get(t) == t.val

None == [ty |-> "None"]
Some(x) == [ty |-> "Some", val |-> x]
Panic(m) == [ty |-> "Panic", message |-> m]

TypeMax(ty) ==
    CASE ty = "Channel" -> CHANNEL_MAX
      [] ty = "U7" -> U7_MAX
      [] ty = "ControllerNumber" -> CONTROLLER_NUMBER_MAX
      [] ty = "U14" -> U14_MAX

\* a mutant of checked_new: clamps instead of failing
checked_new_clamping(ty, raw) ==
    IF raw > TypeMax(ty) THEN [ty |-> ty, val |-> TypeMax(ty)] ELSE [ty |-> ty, val |-> raw]

\* the checked constructor <Type>::new(raw): fails with OutOfRange above the maximum
checked_new(ty, raw) ==
    IF raw > TypeMax(ty) THEN Panic("OutOfRange") ELSE [ty |-> ty, val |-> raw]

\* the fixed pairing convention: MSB controller n in [0, 31] pairs with n + 32
corresponding_14_bit_lsb_controller_number(cn) ==
    IF get(cn) < 32 THEN Some(ControllerNumber(get(cn) + 32)) ELSE None

\* ShortMessageFactory::control_change
control_change(channel, controller_number, value) ==
    [ty |-> "ControlChange", channel |-> channel,
     controller_number |-> controller_number, value |-> value]

(***************************************************************************)
(* bit_util.rs                                                             *)
(***************************************************************************)
bit_util_extract_high_7_bit_value_from_14_bit_value(value) ==
    U7(AsU8(BitAnd(Shr(get(value), 7), 127)))

bit_util_extract_low_7_bit_value_from_14_bit_value(value) ==
    U7(AsU8(BitAnd(get(value), 127)))

\* a mutant: shifts by 8
bit_util_build_14_shift_8(high, low) ==
    U14(BitOr(Shl16(get(high), 8), get(low)))

bit_util_build_14_bit_value_from_two_7_bit_values(high, low) ==
    U14(BitOr(Shl16(get(high), 7), get(low)))

\* a mutant: the channel is dropped
build_status_byte_without_channel(type_byte, channel) ==
    type_byte

build_status_byte(type_byte, channel) ==
    BitOr(type_byte, get(channel))

\* a mutant: no mask
extract_channel_unmasked(byte) ==
    Channel(byte)

extract_channel_from_status_byte(byte) ==
    Channel(BitAnd(byte, 15))

(***************************************************************************)
(* util.rs                                                                 *)
(***************************************************************************)
\* a mutant: takes the low nibble
extract_high_nibble_unshifted(byte) ==
    Channel(BitAnd(byte, 15))

extract_high_nibble_from_byte(byte) ==
    Channel(BitAnd(Shr(byte, 4), 15))

extract_low_nibble_from_byte(byte) ==
    Channel(BitAnd(byte, 15))

\* SevenBitValue is u8: these two return a bare u8
util_extract_high_7_bit_value_from_14_bit_value(value) ==
    AsU8(BitAnd(Shr(get(value), 7), 127))

\* a mutant: masks with 0x3f
util_extract_low_short_mask(value) ==
    AsU8(BitAnd(get(value), 63))

util_extract_low_7_bit_value_from_14_bit_value(value) ==
    AsU8(BitAnd(get(value), 127))

build_byte_from_nibbles(high_nibble, low_nibble) ==
    BitOr(Shl8(get(high_nibble), 4), get(low_nibble))

\* high and low are bare u8; debug_assert! panics in a debug build only
util_build_14_bit_value_from_two_7_bit_values(high, low, debug) ==
    IF debug /\ high > 127 THEN Panic("assertion failed: high <= 0x7f")
    ELSE IF debug /\ low > 127 THEN Panic("assertion failed: low <= 0x7f")
    ELSE U14(BitOr(Shl16(high, 7), low))

with_low_nibble_added(byte, low_nibble) ==
    BitOr(byte, get(low_nibble))

(***************************************************************************)
(* control_change_14_bit_message.rs                                        *)
(***************************************************************************)
\* a mutant of new: the assertion is missing
new_without_assert(channel, msb_controller_number, value) ==
    [ty |-> "ControlChange14BitMessage", channel |-> channel,
     msb_controller_number |-> msb_controller_number, value |-> value]

\* ControlChange14BitMessage::new
new(channel, msb_controller_number, value) ==
    IF corresponding_14_bit_lsb_controller_number(msb_controller_number).ty # "Some"
    THEN Panic("assertion failed: is_some()")
    ELSE [ty |-> "ControlChange14BitMessage", channel |-> channel,
          msb_controller_number |-> msb_controller_number, value |-> value]

channel(self) == self.channel

msb_controller_number(self) == self.msb_controller_number

\* a mutant: returns the MSB controller number
lsb_controller_number_same_as_msb(self) ==
    self.msb_controller_number

\* Option::expect("impossible") on the pairing lookup
lsb_controller_number(self) ==
    LET o == corresponding_14_bit_lsb_controller_number(self.msb_controller_number)
    IN  IF o.ty = "Some" THEN o.val ELSE Panic("impossible")

value(self) == self.value

\* a mutant: the two messages are swapped
to_short_messages_swapped(self) ==
    << control_change(self.channel, lsb_controller_number(self),
                      bit_util_extract_low_7_bit_value_from_14_bit_value(self.value)),
       control_change(self.channel, msb_controller_number(self),
                      bit_util_extract_high_7_bit_value_from_14_bit_value(self.value)) >>

\* a mutant: both messages carry the high half
to_short_messages_high_twice(self) ==
    << control_change(self.channel, msb_controller_number(self),
                      bit_util_extract_high_7_bit_value_from_14_bit_value(self.value)),
       control_change(self.channel, lsb_controller_number(self),
                      bit_util_extract_high_7_bit_value_from_14_bit_value(self.value)) >>

to_short_messages(self) ==
    << control_change(self.channel, msb_controller_number(self),
                      bit_util_extract_high_7_bit_value_from_14_bit_value(self.value)),
       control_change(self.channel, lsb_controller_number(self),
                      bit_util_extract_low_7_bit_value_from_14_bit_value(self.value)) >>

\* impl From<ControlChange14BitMessage> for [T; 2]
from(m) == to_short_messages(m)

(***************************************************************************)
(* Spec: one ControlChange14BitMessage, constructed and then read.         *)
(***************************************************************************)
\* 14-bit values spread over [0, 16383], with the edge values and the tests' 1057
Values ==
    {(i * 10125) % (U14_MAX + 1) : i \in 0 .. (NumValues - 1)}
        \cup {0, 127, 128, 1057, 8192, U14_MAX}

Init ==
    /\ pc = "start"
    /\ \E c \in 0 .. CHANNEL_MAX, n \in 0 .. CONTROLLER_NUMBER_MAX, v \in Values :
          args = [channel |-> Channel(c),
                  msb_controller_number |-> ControllerNumber(n),
                  value |-> U14(v)]
    /\ msg = None
    /\ op = "none"
    /\ ret = None
    /\ mid = None
    /\ ncalls = 0

New ==
    /\ pc = "start"
    /\ LET r == new(args.channel, args.msb_controller_number, args.value)
       IN  /\ op' = "new"
           /\ ret' = r
           /\ IF r.ty = "Panic"
              THEN pc' = "panicked" /\ msg' = None
              ELSE pc' = "constructed" /\ msg' = r
    /\ UNCHANGED <<args, mid, ncalls>>

\* a call of a &self method (or of from, which takes a copy): the message is not written
Call(name, r) ==
    /\ pc = "constructed"
    /\ ncalls < MaxCalls
    /\ op' = name
    /\ ret' = r
    /\ ncalls' = ncalls + 1
    /\ pc' = IF r.ty = "Panic" THEN "panicked" ELSE "constructed"
    /\ UNCHANGED <<args, msg, mid>>

GetChannel == Call("channel", channel(msg))

GetMsbControllerNumber == Call("msb_controller_number", msb_controller_number(msg))

GetLsbControllerNumber == Call("lsb_controller_number", lsb_controller_number(msg))

GetValue == Call("value", value(msg))

ToShortMessages ==
    Call("to_short_messages", [ty |-> "Array2", items |-> to_short_messages(msg)])

From ==
    Call("from", [ty |-> "Array2", items |-> from(msg)])

Next ==
    \/ New
    \/ GetChannel
    \/ GetMsbControllerNumber
    \/ GetLsbControllerNumber
    \/ GetValue
    \/ ToShortMessages
    \/ From

Spec == Init /\ [][Next]_vars

(***************************************************************************)
(* SpecCodec: the pure functions of bit_util.rs and util.rs, applied to    *)
(* every input of their argument types.                                    *)
(***************************************************************************)
Libs == {"bit_util", "util"}

CodecInputs ==
    \* a 14-bit value to split and join again
    [kind : {"u14"}, lib : {"bit_util"}, debug : {FALSE}, value : {U14(v) : v \in 0 .. U14_MAX}]
    \cup [kind : {"u14"}, lib : {"util"}, debug : BOOLEAN, value : {U14(v) : v \in 0 .. U14_MAX}]
    \* two halves to join and split again: U7 for bit_util.rs, bare u8 for util.rs
    \cup [kind : {"pair"}, lib : {"bit_util"}, debug : {FALSE},
          high : {U7(h) : h \in 0 .. U7_MAX}, low : {U7(l) : l \in 0 .. U7_MAX}]
    \cup [kind : {"pair"}, lib : {"util"}, debug : BOOLEAN,
          high : 0 .. U8_MAX, low : 0 .. U8_MAX]
    \* a byte to split into nibbles, or to read a channel from
    \cup [kind : {"byte"}, lib : Libs, debug : {FALSE}, byte : 0 .. U8_MAX]
    \* a type byte and a channel to build a status byte from
    \cup [kind : {"status"}, lib : Libs, debug : {FALSE}, type_byte : 0 .. U8_MAX,
          channel : {Channel(c) : c \in 0 .. CHANNEL_MAX}]

InitCodec ==
    /\ pc = "start"
    /\ args \in CodecInputs
    /\ msg = None
    /\ op = "none"
    /\ ret = None
    /\ mid = None
    /\ ncalls = 0

\* split14
ExtractHalves ==
    /\ pc = "start"
    /\ args.kind = "u14"
    /\ op' = "extract_7_bit_values"
    /\ mid' = IF args.lib = "bit_util"
              THEN << bit_util_extract_high_7_bit_value_from_14_bit_value(args.value),
                      bit_util_extract_low_7_bit_value_from_14_bit_value(args.value) >>
              ELSE << util_extract_high_7_bit_value_from_14_bit_value(args.value),
                      util_extract_low_7_bit_value_from_14_bit_value(args.value) >>
    /\ pc' = "split"
    /\ UNCHANGED <<args, msg, ret, ncalls>>

\* join14 of the two halves just extracted
BuildFromHalves ==
    /\ pc = "split"
    /\ args.kind = "u14"
    /\ op' = "build_14_bit_value"
    /\ ret' = IF args.lib = "bit_util"
              THEN bit_util_build_14_bit_value_from_two_7_bit_values(mid[1], mid[2])
              ELSE util_build_14_bit_value_from_two_7_bit_values(mid[1], mid[2], args.debug)
    /\ pc' = IF ret'.ty = "Panic" THEN "panicked" ELSE "done"
    /\ UNCHANGED <<args, msg, mid, ncalls>>

\* join14
Build14 ==
    /\ pc = "start"
    /\ args.kind = "pair"
    /\ op' = "build_14_bit_value"
    /\ mid' = IF args.lib = "bit_util"
              THEN bit_util_build_14_bit_value_from_two_7_bit_values(args.high, args.low)
              ELSE util_build_14_bit_value_from_two_7_bit_values(args.high, args.low, args.debug)
    /\ pc' = IF mid'.ty = "Panic" THEN "panicked" ELSE "built"
    /\ UNCHANGED <<args, msg, ret, ncalls>>

\* split14 of the value just built
ExtractFromBuilt ==
    /\ pc = "built"
    /\ args.kind = "pair"
    /\ op' = "extract_7_bit_values"
    /\ ret' = IF args.lib = "bit_util"
              THEN << bit_util_extract_high_7_bit_value_from_14_bit_value(mid),
                      bit_util_extract_low_7_bit_value_from_14_bit_value(mid) >>
              ELSE << util_extract_high_7_bit_value_from_14_bit_value(mid),
                      util_extract_low_7_bit_value_from_14_bit_value(mid) >>
    /\ pc' = "done"
    /\ UNCHANGED <<args, msg, mid, ncalls>>

\* split_nibbles
ExtractNibbles ==
    /\ pc = "start"
    /\ args.kind = "byte"
    /\ args.lib = "util"
    /\ op' = "extract_nibbles"
    /\ mid' = << extract_high_nibble_from_byte(args.byte),
                 extract_low_nibble_from_byte(args.byte) >>
    /\ pc' = "split"
    /\ UNCHANGED <<args, msg, ret, ncalls>>

\* join_nibbles of the two nibbles just extracted
BuildByte ==
    /\ pc = "split"
    /\ args.kind = "byte"
    /\ op' = "build_byte_from_nibbles"
    /\ ret' = build_byte_from_nibbles(mid[1], mid[2])
    /\ pc' = "done"
    /\ UNCHANGED <<args, msg, mid, ncalls>>

\* extract_channel_from_status_byte of any byte
ExtractChannel ==
    /\ pc = "start"
    /\ args.kind = "byte"
    /\ args.lib = "bit_util"
    /\ op' = "extract_channel_from_status_byte"
    /\ ret' = extract_channel_from_status_byte(args.byte)
    /\ pc' = "done"
    /\ UNCHANGED <<args, msg, mid, ncalls>>

BuildStatusByte ==
    /\ pc = "start"
    /\ args.kind = "status"
    /\ op' = "build_status_byte"
    /\ mid' = IF args.lib = "bit_util"
              THEN build_status_byte(args.type_byte, args.channel)
              ELSE with_low_nibble_added(args.type_byte, args.channel)
    /\ pc' = "built"
    /\ UNCHANGED <<args, msg, ret, ncalls>>

\* extract_channel_from_status_byte of the status byte just built
ExtractChannelFromBuilt ==
    /\ pc = "built"
    /\ args.kind = "status"
    /\ op' = "extract_channel_from_status_byte"
    /\ ret' = extract_channel_from_status_byte(mid)
    /\ pc' = "done"
    /\ UNCHANGED <<args, msg, mid, ncalls>>

NextCodec ==
    \/ ExtractHalves
    \/ BuildFromHalves
    \/ Build14
    \/ ExtractFromBuilt
    \/ ExtractNibbles
    \/ BuildByte
    \/ ExtractChannel
    \/ BuildStatusByte
    \/ ExtractChannelFromBuilt

SpecCodec == InitCodec /\ [][NextCodec]_vars

(***************************************************************************)
(* SpecTypes: the checked constructors of the four value types, applied    *)
(* to every raw integer of the underlying type (u8, and u16 for U14).      *)
(***************************************************************************)
TypeInputs ==
    [ty : {"Channel", "U7", "ControllerNumber"}, raw : 0 .. U8_MAX]
    \cup [ty : {"U14"}, raw : 0 .. U16_MAX]

InitTypes ==
    /\ pc = "start"
    /\ args \in TypeInputs
    /\ msg = None
    /\ op = "none"
    /\ ret = None
    /\ mid = None
    /\ ncalls = 0

CheckedNew ==
    /\ pc = "start"
    /\ op' = "new"
    /\ mid' = checked_new(args.ty, args.raw)
    /\ pc' = IF mid'.ty = "Panic" THEN "panicked" ELSE "constructed"
    /\ UNCHANGED <<args, msg, ret, ncalls>>

ConvertBack ==
    /\ pc = "constructed"
    /\ op' = "get"
    /\ ret' = get(mid)
    /\ pc' = "done"
    /\ UNCHANGED <<args, msg, mid, ncalls>>

NextTypes ==
    \/ CheckedNew
    \/ ConvertBack

SpecTypes == InitTypes /\ [][NextTypes]_vars

(***************************************************************************)
(* Properties.                                                             *)
(***************************************************************************)
ArgC == args.channel.val
ArgN == args.msb_controller_number.val
ArgV == args.value.val

\* C1: to_short_messages() returns exactly two control-change messages, the MSB
\* message (channel c, controller n, value (v >> 7) & 0x7F) first and the LSB
\* message (channel c, controller n + 32, value v & 0x7F) second.
C1_MsbFirstLsbSecond ==
    op = "to_short_messages" =>
        /\ ret.ty = "Array2"
        /\ Len(ret.items) = 2
        /\ ret.items[1] = [ty |-> "ControlChange",
                           channel |-> [ty |-> "Channel", val |-> ArgC],
                           controller_number |-> [ty |-> "ControllerNumber", val |-> ArgN],
                           value |-> [ty |-> "U7", val |-> (ArgV \div 128) % 128]]
        /\ ret.items[2] = [ty |-> "ControlChange",
                           channel |-> [ty |-> "Channel", val |-> ArgC],
                           controller_number |-> [ty |-> "ControllerNumber", val |-> ArgN + 32],
                           value |-> [ty |-> "U7", val |-> ArgV % 128]]
        /\ ArgN \in 0 .. 31

\* the scenario of tests::basics: (5, 2, 1057) gives (5, 2, 8) then (5, 34, 33)
C1_Witness ==
    /\ op = "to_short_messages"
    /\ ArgC = 5 /\ ArgN = 2 /\ ArgV = 1057
    /\ ret.items[1].controller_number.val = 2 /\ ret.items[1].value.val = 8
    /\ ret.items[2].controller_number.val = 34 /\ ret.items[2].value.val = 33

\* C2: new() panics for every MSB controller number in [32, 127] and succeeds,
\* storing the triple as given, for every one in [0, 31]; no message with an
\* MSB controller number outside [0, 31] ever exists.
C2_NewRejectsUnpaired ==
    /\ (pc # "start" /\ ArgN \in 32 .. 127) =>
          pc = "panicked" /\ op = "new" /\ ret.ty = "Panic" /\ msg = None
    /\ (pc # "start" /\ ArgN \in 0 .. 31) =>
          /\ msg = [ty |-> "ControlChange14BitMessage", channel |-> args.channel,
                    msb_controller_number |-> args.msb_controller_number,
                    value |-> args.value]
          /\ (op = "new" => pc = "constructed" /\ ret = msg)
    /\ msg # None => msg.msb_controller_number.val \in 0 .. 31

\* new() has panicked on the first unpaired controller number, 32
C2_Witness ==
    /\ pc = "panicked" /\ op = "new" /\ ArgN = 32 /\ msg = None

\* C3: on a constructed message lsb_controller_number() returns n + 32 on every
\* call and never panics, and after any calls channel(), msb_controller_number()
\* and value() return what was given to new(); no call changes the message.
C3_AccessorsInv ==
    /\ pc = "panicked" => op = "new"
    /\ pc = "constructed" =>
          /\ msg.channel = args.channel
          /\ msg.msb_controller_number = args.msb_controller_number
          /\ msg.value = args.value
          /\ op = "lsb_controller_number" =>
                ret = [ty |-> "ControllerNumber", val |-> ArgN + 32]
          /\ op = "channel" => ret = args.channel
          /\ op = "msb_controller_number" => ret = args.msb_controller_number
          /\ op = "value" => ret = args.value

C3_AccessorsStep ==
    /\ pc = "constructed" => msg' = msg
    /\ (op = "lsb_controller_number" /\ op' = "lsb_controller_number") => ret' = ret

C3_LsbDerivedAndPure == [](C3_AccessorsInv) /\ [][C3_AccessorsStep]_vars

\* a second or later call of lsb_controller_number(), on the last paired number
C3_Witness ==
    /\ pc = "constructed" /\ ncalls >= 2 /\ op = "lsb_controller_number"
    /\ ArgN = 31 /\ ret.val = 63

\* C10: the encoding is lossless: both messages carry channel c, the first
\* controller n in [0, 31], the second n + 32 in [32, 63], and joining the
\* first value as high with the second as low gives v back.
C10_EncodingLossless ==
    op \in {"to_short_messages", "from"} =>
        LET m1 == ret.items[1]
            m2 == ret.items[2]
        IN  /\ m1.channel = args.channel /\ m2.channel = args.channel
            /\ m1.controller_number = args.msb_controller_number
            /\ m1.controller_number.val \in 0 .. 31
            /\ m2.controller_number.val = ArgN + 32
            /\ m2.controller_number.val \in 32 .. 63
            /\ bit_util_build_14_bit_value_from_two_7_bit_values(m1.value, m2.value)
                  = args.value

\* the largest value on the last paired controller, encoded by from()
C10_Witness ==
    /\ op = "from" /\ ArgV = 16383 /\ ArgN = 31
    /\ ret.items[1].value.val = 127 /\ ret.items[2].value.val = 127
    /\ ret.items[2].controller_number.val = 63

\* C4: join14(split14(v)) == v for every 14-bit value v, in bit_util.rs and util.rs.
C4_JoinAfterSplit ==
    args.kind = "u14" =>
        /\ pc # "panicked"
        /\ pc = "done" => ret = args.value

C4_Witness ==
    /\ args.kind = "u14" /\ pc = "done" /\ args.lib = "bit_util"
    /\ args.value.val = 16383 /\ mid[1].val = 127 /\ mid[2].val = 127
    /\ ret.val = 16383

\* C5: split14(join14(high, low)) == (high, low) for every high, low in [0, 127].
C5_SplitAfterJoin ==
    /\ (args.kind = "pair" /\ args.lib = "bit_util") =>
          /\ pc # "panicked"
          /\ pc = "done" => ret = <<args.high, args.low>>
    /\ (args.kind = "pair" /\ args.lib = "util"
            /\ args.high \in 0 .. 127 /\ args.low \in 0 .. 127) =>
          /\ pc # "panicked"
          /\ pc = "done" => ret = <<args.high, args.low>>

C5_Witness ==
    /\ args.kind = "pair" /\ pc = "done" /\ args.lib = "util"
    /\ args.high = 127 /\ args.low = 1 /\ mid.val = 16257
    /\ ret = <<127, 1>>

\* C6: join_nibbles(split_nibbles(b)) == b for every byte b.
C6_NibbleRoundTrip ==
    (args.kind = "byte" /\ op = "build_byte_from_nibbles") => ret = args.byte

C6_Witness ==
    /\ args.kind = "byte" /\ op = "build_byte_from_nibbles"
    /\ args.byte = 165 /\ mid[1].val = 10 /\ mid[2].val = 5 /\ ret = 165

\* C7: for a type byte t with a zero low nibble and a channel c,
\* build_status_byte(t, c) == t + c and the channel extracted from it is c.
C7_StatusByte ==
    (args.kind = "status" /\ args.type_byte % 16 = 0) =>
        /\ pc \in {"built", "done"} =>
              /\ mid = args.type_byte + args.channel.val
              /\ mid \div 16 = args.type_byte \div 16
              /\ mid % 16 = args.channel.val
        /\ pc = "done" => ret = args.channel

\* build_status_byte(0xB0, 5) == 0xB5 and the channel of 0xB5 is 5
C7_Witness ==
    /\ args.kind = "status" /\ args.lib = "bit_util" /\ pc = "done"
    /\ args.type_byte = 176 /\ args.channel.val = 5
    /\ mid = 181 /\ ret.val = 5

\* C9: every value the codec builds without a check is within its type's width:
\* channels and nibbles in [0, 15], 7-bit halves in [0, 127], and the 14-bit
\* value joined from halves in [0, 127] in [0, 16383].
C9_UncheckedInRange ==
    /\ op = "extract_channel_from_status_byte" =>
          ret.ty = "Channel" /\ ret.val \in 0 .. 15
    /\ (args.kind = "byte" /\ pc = "split") =>
          /\ mid[1].ty = "Channel" /\ mid[1].val \in 0 .. 15
          /\ mid[2].ty = "Channel" /\ mid[2].val \in 0 .. 15
    /\ (args.kind = "u14" /\ pc = "split" /\ args.lib = "bit_util") =>
          /\ mid[1].ty = "U7" /\ mid[1].val \in 0 .. 127
          /\ mid[2].ty = "U7" /\ mid[2].val \in 0 .. 127
    /\ (args.kind = "u14" /\ pc = "split" /\ args.lib = "util") =>
          mid[1] \in 0 .. 127 /\ mid[2] \in 0 .. 127
    /\ (args.kind = "pair" /\ args.lib = "bit_util" /\ pc # "start") =>
          mid.ty = "U14" /\ mid.val \in 0 .. 16383
    /\ (args.kind = "pair" /\ args.lib = "util" /\ pc # "start"
            /\ args.high \in 0 .. 127 /\ args.low \in 0 .. 127) =>
          mid.ty = "U14" /\ mid.val \in 0 .. 16383

\* the channel of the byte 0xFF is 15
C9_Witness ==
    /\ args.kind = "byte" /\ op = "extract_channel_from_status_byte"
    /\ args.byte = 255 /\ ret.val = 15

\* C8: a checked constructor fails with OutOfRange for every raw integer above
\* the type's maximum (15, 127, 127, 16383) and otherwise stores exactly the
\* integer given, which converting back returns.
C8_Max ==
    CASE args.ty = "Channel" -> 15
      [] args.ty = "U7" -> 127
      [] args.ty = "ControllerNumber" -> 127
      [] args.ty = "U14" -> 16383

C8_RangeEnforced ==
    /\ (pc # "start" /\ args.raw > C8_Max) =>
          pc = "panicked" /\ mid = [ty |-> "Panic", message |-> "OutOfRange"]
    /\ (pc # "start" /\ args.raw <= C8_Max) =>
          /\ pc \in {"constructed", "done"}
          /\ mid = [ty |-> args.ty, val |-> args.raw]
          /\ pc = "done" => ret = args.raw

\* U14::new(16384) has failed
C8_Witness ==
    /\ pc = "panicked" /\ args.ty = "U14" /\ args.raw = 16384
    /\ mid.message = "OutOfRange"

====
